---- MODULE Spec2Model ----
(***************************************************************************)
(* Model of controllers/podset_controller.go: the PodSet reconciler.       *)
(* One reconciliation pass (Reconcile) is a sequence of steps, one per     *)
(* call to the cluster store; the goroutines fanned out by manageReplicas  *)
(* and createPodsInBatch are modelled one step per store call and one step *)
(* per channel send.  The cluster store (PodSet object and pods) is shared *)
(* state that other actors change between the steps of a pass.             *)
(***************************************************************************)
EXTENDS Integers, Sequences, FiniteSets, TLC

\* ------------------------------------------------------------------ bounds
MaxPods == 3          \* pod names available in the namespace: 1..MaxPods
MaxReplicas == 3      \* largest spec.replicas a PodSet is given
MaxGeneration == 2    \* metadata.generation values explored: 1..MaxGeneration
BurstReplicas == 2    \* types.BurstReplicas, scaled down
MaxEnvSteps == 1      \* changes made by actors other than the controller

PodIds == 1 .. MaxPods
Reconcilers == {1, 2}                 \* reconcile workers of the controller
MaxCount == IF MaxPods > MaxReplicas THEN MaxPods ELSE MaxReplicas
Workers == 1 .. MaxCount              \* goroutine slots of one batch

VARIABLES
  podSetObj,     \* the PodSet as stored: spec, metadata and status
  pods,          \* the pods as stored: name -> "none" or a pod state
  nsTerminating, \* the namespace of the PodSet is being terminated
  reconcilers,   \* the reconcile workers that are running
  envSteps,      \* the number of changes other actors have made
  pc,            \* per pass: the position inside Reconcile
  podSet,        \* per pass: the PodSet as fetched by r.Get
  filteredPods,  \* per pass: the active pods as listed
  opKind,        \* per pass: what manageReplicas fanned out
  count,         \* per pass: the clamped diff (wg.Add, cap(errCh))
  wk,            \* per pass: the state of every fanned-out goroutine
  errCh,         \* per pass: the number of errors buffered in errCh
  replicasErr,   \* per pass: manageReplicas returned a non-nil error
  statusWrites,  \* per pass: the statuses handed to r.Status().Update
  result,        \* per pass: the value Reconcile returned
  prevObs,       \* per pass: what the previous pass observed
  unchanged,     \* per pass: this pass observed what the previous one did
  events         \* per pass: the goroutines that recorded a Warning event

storeVars == <<podSetObj, pods, nsTerminating, reconcilers, envSteps>>
passVars == <<pc, podSet, filteredPods, opKind, count, wk, errCh,
              replicasErr, statusWrites, result, prevObs, unchanged, events>>
vars == <<podSetObj, pods, nsTerminating, reconcilers, envSteps, pc, podSet,
          filteredPods, opKind, count, wk, errCh, replicasErr, statusWrites, result, prevObs,
          unchanged, events>>

\* ------------------------------------------------------------ pure helpers
ZeroStatus == [replicas |-> 0, readyReplicas |-> 0, availableReplicas |-> 0,
               observedGeneration |-> 0]

NoPodSet == [replicas |-> 0, deletionTimestamp |-> FALSE, generation |-> 0,
             status |-> ZeroStatus]

NoObs == [seen |-> FALSE, replicas |-> 0, pods |-> <<>>, generation |-> 0,
          committed |-> FALSE]

NoResult == [returned |-> FALSE, requeue |-> FALSE, step |-> "none"]

RECURSIVE ListFrom(_, _)
\* r.List: the pods of the namespace that exist, in name order
ListFrom(ps, i) ==
  IF i > MaxPods THEN <<>>
  ELSE (IF ps[i] = "none" THEN <<>> ELSE <<[name |-> i, state |-> ps[i]]>>)
       \o ListFrom(ps, i + 1)

ListPods(ps) == ListFrom(ps, 1)

IsPodActive(pod) == pod.state # "Failed"

FilterActivePods(items) == SelectSeq(items, IsPodActive)

IsPodReady(pod) == pod.state = "Ready"

IsPodAvailable(pod, minReadySeconds) ==
  IsPodReady(pod) /\ minReadySeconds = 0

replicaDiff_offByOne(fp, ps) == Len(fp) - ps.replicas - 1

\* manageReplicas, line 108
replicaDiff(fp, ps) == Len(fp) - ps.replicas

clampToBurst_unclamped(diff) == diff

clampToBurst_offByOne(diff) ==
  IF diff > BurstReplicas + 1 THEN BurstReplicas + 1 ELSE diff

\* manageReplicas, lines 111-113 and 125-127
clampToBurst(diff) == IF diff > BurstReplicas THEN BurstReplicas ELSE diff

\* manageReplicas, lines 109-128: the operation fanned out and how many
manageKind(fp, ps) ==
  LET diff == replicaDiff(fp, ps) IN
  IF diff < 0 THEN "create" ELSE IF diff > 0 THEN "delete" ELSE "none"

manageCount(fp, ps) ==
  LET diff == replicaDiff(fp, ps) IN
  IF diff < 0 THEN clampToBurst(diff * (-1))
  ELSE IF diff > 0 THEN clampToBurst(diff)
  ELSE 0

\* Reconcile, line 92: replica management is skipped for a PodSet being deleted
skipManage_never(ps) == FALSE

skipManage_inverted(ps) == ~ps.deletionTimestamp

skipManage(ps) == ps.deletionTimestamp

getPodsToDelete_last(fp, diff) == SubSeq(fp, Len(fp) - diff + 1, Len(fp))

\* getPodsToDelete, lines 269-271
getPodsToDelete(fp, diff) == SubSeq(fp, 1, diff)

calculateStatus_desired(ps, fp, rErr) ==
  LET ready == {i \in 1 .. Len(fp) : IsPodReady(fp[i])}
      available == {i \in ready : IsPodAvailable(fp[i], 0)}
  IN [ps.status EXCEPT !.replicas = ps.replicas,
                       !.readyReplicas = Cardinality(ready),
                       !.availableReplicas = Cardinality(available)]

calculateStatus_fresh(ps, fp, rErr) ==
  LET ready == {i \in 1 .. Len(fp) : IsPodReady(fp[i])}
      available == {i \in ready : IsPodAvailable(fp[i], 0)}
  IN [ZeroStatus EXCEPT !.replicas = Len(fp),
                        !.readyReplicas = Cardinality(ready),
                        !.availableReplicas = Cardinality(available)]

calculateStatus_availableAll(ps, fp, rErr) ==
  LET ready == {i \in 1 .. Len(fp) : IsPodReady(fp[i])}
  IN [ps.status EXCEPT !.replicas = Len(fp),
                       !.readyReplicas = Cardinality(ready),
                       !.availableReplicas = Len(fp)]

\* calculateStatus, lines 219-238
calculateStatus(ps, fp, rErr) ==
  LET ready == {i \in 1 .. Len(fp) : IsPodReady(fp[i])}
      available == {i \in ready : IsPodAvailable(fp[i], 0)}
  IN [ps.status EXCEPT !.replicas = Len(fp),
                       !.readyReplicas = Cardinality(ready),
                       !.availableReplicas = Cardinality(available)]

\* updatePodSetStatus, lines 251-258: the status is up to date, no write
statusUnchanged(ps, newStatus) ==
  /\ ps.status.replicas = newStatus.replicas
  /\ ps.status.readyReplicas = newStatus.readyReplicas
  /\ ps.status.availableReplicas = newStatus.availableReplicas
  /\ ps.generation = newStatus.observedGeneration

statusToWrite_noGeneration(ps, newStatus) == newStatus

statusToWrite_staleGeneration(ps, newStatus) ==
  [newStatus EXCEPT !.observedGeneration = ps.status.observedGeneration]

\* updatePodSetStatus, lines 259-261: the status that is written
statusToWrite(ps, newStatus) ==
  [newStatus EXCEPT !.observedGeneration = ps.generation]

\* ------------------------------------------------------------------- Init
Init ==
  /\ podSetObj \in [exists : {TRUE}, replicas : 0 .. MaxReplicas,
                    deletionTimestamp : {FALSE}, generation : {1},
                    selectorOK : {TRUE}, status : {ZeroStatus}]
  /\ \E k \in 0 .. MaxPods :
       pods = [i \in PodIds |-> IF i <= k THEN "Ready" ELSE "none"]
  /\ nsTerminating = FALSE
  /\ reconcilers = {1}
  /\ envSteps = 0
  /\ pc = [p \in Reconcilers |-> "idle"]
  /\ podSet = [p \in Reconcilers |-> NoPodSet]
  /\ filteredPods = [p \in Reconcilers |-> <<>>]
  /\ opKind = [p \in Reconcilers |-> "none"]
  /\ count = [p \in Reconcilers |-> 0]
  /\ wk = [p \in Reconcilers |-> [i \in Workers |-> "none"]]
  /\ errCh = [p \in Reconcilers |-> 0]
  /\ replicasErr = [p \in Reconcilers |-> FALSE]
  /\ statusWrites = [p \in Reconcilers |-> <<>>]
  /\ result = [p \in Reconcilers |-> NoResult]
  /\ prevObs = [p \in Reconcilers |-> NoObs]
  /\ unchanged = [p \in Reconcilers |-> FALSE]
  /\ events = [p \in Reconcilers |-> {}]


\* ------------------------------------------------- Reconcile, lines 60-105
Returned(req, st) == [returned |-> TRUE, requeue |-> req, step |-> st]

\* what a finished pass observed, kept for the pass that follows it
Observed(p) ==
  IF pc[p] = "done" /\ result[p].step \in {"ok", "commit"}
  THEN [seen |-> TRUE, replicas |-> podSet[p].replicas,
        pods |-> filteredPods[p], generation |-> podSet[p].generation,
        committed |-> result[p].step = "ok"]
  ELSE NoObs

passMayStart_locked(p) ==
  \A q \in Reconcilers \ {p} : pc[q] \in {"idle", "done"}

\* PodSetReconciler, lines 43-49, and Reconcile, lines 60-64: the reconciler
\* has no lock and a pass takes none, so a pass starts whatever the other does
passMayStart(p) == TRUE

\* a pass starts: the locals of the previous pass are gone
StartPass(p) ==
  /\ p \in reconcilers
  /\ passMayStart(p)
  /\ pc[p] \in {"idle", "done"}
  /\ filteredPods' = [filteredPods EXCEPT ![p] = <<>>]
  /\ opKind' = [opKind EXCEPT ![p] = "none"]
  /\ count' = [count EXCEPT ![p] = 0]
  /\ wk' = [wk EXCEPT ![p] = [i \in Workers |-> "none"]]
  /\ errCh' = [errCh EXCEPT ![p] = 0]
  /\ replicasErr' = [replicasErr EXCEPT ![p] = FALSE]
  /\ statusWrites' = [statusWrites EXCEPT ![p] = <<>>]
  /\ unchanged' = [unchanged EXCEPT ![p] = FALSE]
  /\ events' = [events EXCEPT ![p] = {}]

\* a pass ends before it has listed the pods: nothing to compare it with
EndEarly(p) == prevObs' = [prevObs EXCEPT ![p] = NoObs]

\* the previous pass completed its commit and observed the same desired
\* count, generation and active pods as this pass
SameObservation(p, fp) ==
  /\ prevObs[p].seen
  /\ prevObs[p].committed
  /\ prevObs[p].replicas = podSet[p].replicas
  /\ prevObs[p].generation = podSet[p].generation
  /\ prevObs[p].pods = fp

\* lines 64-65 and 78: r.Get and parsePodSelector succeed
GetOk(p) ==
  /\ StartPass(p)
  /\ podSetObj.exists
  /\ podSetObj.selectorOK
  /\ podSet' = [podSet EXCEPT ![p] =
        [replicas |-> podSetObj.replicas,
         deletionTimestamp |-> podSetObj.deletionTimestamp,
         generation |-> podSetObj.generation,
         status |-> podSetObj.status]]
  /\ prevObs' = [prevObs EXCEPT ![p] = Observed(p)]
  /\ pc' = [pc EXCEPT ![p] = "list"]
  /\ result' = [result EXCEPT ![p] = NoResult]
  /\ UNCHANGED storeVars

GetNotFound_requeue(p) ==
  /\ StartPass(p)
  /\ ~podSetObj.exists
  /\ podSet' = [podSet EXCEPT ![p] = NoPodSet]
  /\ pc' = [pc EXCEPT ![p] = "done"]
  /\ result' = [result EXCEPT ![p] = Returned(TRUE, "notfound")]
  /\ EndEarly(p)
  /\ UNCHANGED storeVars

\* lines 66-70: the PodSet is gone
GetNotFound(p) ==
  /\ StartPass(p)
  /\ ~podSetObj.exists
  /\ podSet' = [podSet EXCEPT ![p] = NoPodSet]
  /\ pc' = [pc EXCEPT ![p] = "done"]
  /\ result' = [result EXCEPT ![p] = Returned(FALSE, "notfound")]
  /\ EndEarly(p)
  /\ UNCHANGED storeVars

\* lines 71-75: r.Get fails with another error
GetError(p) ==
  /\ StartPass(p)
  /\ podSet' = [podSet EXCEPT ![p] = NoPodSet]
  /\ pc' = [pc EXCEPT ![p] = "done"]
  /\ result' = [result EXCEPT ![p] = Returned(TRUE, "get")]
  /\ EndEarly(p)
  /\ UNCHANGED storeVars

\* lines 78-81: the selector of the fetched PodSet does not parse
SelectorError(p) ==
  /\ StartPass(p)
  /\ podSetObj.exists
  /\ ~podSetObj.selectorOK
  /\ podSet' = [podSet EXCEPT ![p] = NoPodSet]
  /\ pc' = [pc EXCEPT ![p] = "done"]
  /\ result' = [result EXCEPT ![p] = Returned(TRUE, "selector")]
  /\ EndEarly(p)
  /\ UNCHANGED storeVars

\* lines 82-94, 108-135 and 203-213: r.List succeeds; unless the PodSet is
\* being deleted, manageReplicas computes the diff, clamps it and fans out
ListOk(p) ==
  /\ pc[p] = "list"
  /\ LET fp == FilterActivePods(ListPods(pods))
         kind == IF skipManage(podSet[p]) THEN "none"
                 ELSE manageKind(fp, podSet[p])
         n == IF skipManage(podSet[p]) THEN 0 ELSE manageCount(fp, podSet[p])
     IN /\ filteredPods' = [filteredPods EXCEPT ![p] = fp]
        /\ unchanged' = [unchanged EXCEPT ![p] = SameObservation(p, fp)]
        /\ opKind' = [opKind EXCEPT ![p] = kind]
        /\ count' = [count EXCEPT ![p] = n]
        /\ wk' = [wk EXCEPT ![p] =
              [i \in Workers |-> IF i <= n THEN "run" ELSE "none"]]
        /\ pc' = [pc EXCEPT ![p] = IF kind = "none" THEN "status" ELSE "wait"]
  /\ errCh' = [errCh EXCEPT ![p] = 0]
  /\ EndEarly(p)
  /\ UNCHANGED <<storeVars, podSet, replicasErr, statusWrites, result, events>>

ListError_continue(p) ==
  /\ pc[p] = "list"
  /\ pc' = [pc EXCEPT ![p] = "status"]
  /\ result' = [result EXCEPT ![p] = Returned(TRUE, "list")]
  /\ EndEarly(p)
  /\ UNCHANGED <<storeVars, podSet, filteredPods, opKind, count, wk, errCh,
                 replicasErr, statusWrites, unchanged, events>>

\* lines 84-87: r.List fails
ListError(p) ==
  /\ pc[p] = "list"
  /\ pc' = [pc EXCEPT ![p] = "done"]
  /\ result' = [result EXCEPT ![p] = Returned(TRUE, "list")]
  /\ EndEarly(p)
  /\ UNCHANGED <<storeVars, podSet, filteredPods, opKind, count, wk, errCh,
                 replicasErr, statusWrites, unchanged, events>>

\* ------------------------------------------- manageReplicas, lines 107-156
FreeNames == {i \in PodIds : pods[i] = "none"}

LeastOf(S) == CHOOSE i \in S : \A j \in S : i <= j

\* createPod, lines 158-175 and 182-183, called by a goroutine of
\* createPodsInBatch: the pod is created
CreatePodOk(p, i) ==
  /\ wk[p][i] = "run"
  /\ opKind[p] = "create"
  /\ ~nsTerminating
  /\ FreeNames # {}
  /\ pods' = [pods EXCEPT ![LeastOf(FreeNames)] = "Pending"]
  /\ wk' = [wk EXCEPT ![p][i] = "ok"]
  /\ UNCHANGED <<podSetObj, nsTerminating, reconcilers, envSteps, pc, podSet, filteredPods,
                 opKind, count, errCh, replicasErr, statusWrites, result,
                 prevObs, unchanged, events>>

\* createPod, lines 159-165 and 175-181: an error without a recorded event
CreatePodError(p, i) ==
  /\ wk[p][i] = "run"
  /\ opKind[p] = "create"
  /\ wk' = [wk EXCEPT ![p][i] = "send"]
  /\ UNCHANGED <<storeVars, pc, podSet, filteredPods, opKind, count, errCh,
                 replicasErr, statusWrites, result, prevObs, unchanged, events>>

\* createPod, lines 175-180: r.Create fails because the namespace is being
\* terminated; a Warning event is recorded before the error is returned
CreatePodTerminating(p, i) ==
  /\ wk[p][i] = "run"
  /\ opKind[p] = "create"
  /\ nsTerminating
  /\ wk' = [wk EXCEPT ![p][i] = "send"]
  /\ events' = [events EXCEPT ![p] = @ \cup {i}]
  /\ UNCHANGED <<storeVars, pc, podSet, filteredPods, opKind, count, errCh,
                 replicasErr, statusWrites, result, prevObs, unchanged>>

\* the pod the i-th goroutine of the scale-down loop deletes, lines 129-135
targetPod(p, i) == getPodsToDelete(filteredPods[p], count[p])[i].name

\* deletePod, lines 186-200, called by a goroutine of manageReplicas
DeletePodOk(p, i) ==
  /\ wk[p][i] = "run"
  /\ opKind[p] = "delete"
  /\ pods[targetPod(p, i)] # "none"
  /\ pods' = [pods EXCEPT ![targetPod(p, i)] = "none"]
  /\ wk' = [wk EXCEPT ![p][i] = "ok"]
  /\ UNCHANGED <<podSetObj, nsTerminating, reconcilers, envSteps, pc, podSet, filteredPods,
                 opKind, count, errCh, replicasErr, statusWrites, result,
                 prevObs, unchanged, events>>

\* lines 137-141 and 190-194: the pod is already gone, nothing is sent
DeletePodNotFound(p, i) ==
  /\ wk[p][i] = "run"
  /\ opKind[p] = "delete"
  /\ pods[targetPod(p, i)] = "none"
  /\ wk' = [wk EXCEPT ![p][i] = "notfound"]
  /\ UNCHANGED <<storeVars, pc, podSet, filteredPods, opKind, count, errCh,
                 replicasErr, statusWrites, result, prevObs, unchanged, events>>

\* lines 137-139 and 196: r.Delete fails with another error
DeletePodError(p, i) ==
  /\ wk[p][i] = "run"
  /\ opKind[p] = "delete"
  /\ wk' = [wk EXCEPT ![p][i] = "send"]
  /\ UNCHANGED <<storeVars, pc, podSet, filteredPods, opKind, count, errCh,
                 replicasErr, statusWrites, result, prevObs, unchanged, events>>

errChCap_short(p) == count[p] - 1

\* make(chan error, diff), lines 131 and 203
errChCap(p) == count[p]

\* errCh <- err, lines 139 and 210, then the deferred wg.Done
SendError(p, i) ==
  /\ wk[p][i] = "send"
  /\ errCh[p] < errChCap(p)
  /\ errCh' = [errCh EXCEPT ![p] = @ + 1]
  /\ wk' = [wk EXCEPT ![p][i] = "err"]
  /\ UNCHANGED <<storeVars, pc, podSet, filteredPods, opKind, count,
                 replicasErr, statusWrites, result, prevObs, unchanged, events>>

Outstanding(p) == {i \in Workers : wk[p][i] \in {"run", "send"}}

wgWaitReturns_nowait(p) == TRUE

\* wg.Wait(), lines 144 and 214
wgWaitReturns(p) == Outstanding(p) = {}

\* createPodsInBatch, line 216: what the batch reports for n buffered errors
createPodsInBatchErr(n) == FALSE

deleteBatchErr_dropped(n) == FALSE

\* manageReplicas, lines 146-152: the select on errCh for n buffered errors
deleteBatchErr(n) == n > 0

afterManage_abort(rErr) == IF rErr THEN "done" ELSE "status"

\* Reconcile, lines 91-97: where the pass goes once manageReplicas has
\* returned rErr; the error is kept and the pass goes on
afterManage(rErr) == "status"

\* lines 144-155 and 214-216, 122: the join and the error that is returned
Join(p) ==
  /\ pc[p] = "wait"
  /\ wgWaitReturns(p)
  /\ LET rErr == IF opKind[p] = "create" THEN createPodsInBatchErr(errCh[p])
                 ELSE deleteBatchErr(errCh[p])
     IN /\ replicasErr' = [replicasErr EXCEPT ![p] = rErr]
        /\ pc' = [pc EXCEPT ![p] = afterManage(rErr)]
        /\ result' = [result EXCEPT ![p] =
              IF afterManage(rErr) = "done" THEN Returned(TRUE, "manage")
              ELSE @]
  /\ UNCHANGED <<storeVars, podSet, filteredPods, opKind, count, wk, errCh,
                 statusWrites, prevObs, unchanged, events>>

\* ----------------------------- lines 96-104, calculateStatus and the commit
newStatusOf(p) == calculateStatus(podSet[p], filteredPods[p], replicasErr[p])

\* updatePodSetStatus, lines 251-258: nothing to write
UpdateStatusNoop(p) ==
  /\ pc[p] = "status"
  /\ statusUnchanged(podSet[p], newStatusOf(p))
  /\ pc' = [pc EXCEPT ![p] = "done"]
  /\ result' = [result EXCEPT ![p] = Returned(FALSE, "ok")]
  /\ UNCHANGED <<storeVars, podSet, filteredPods, opKind, count, wk, errCh,
                 replicasErr, statusWrites, prevObs, unchanged, events>>

\* updatePodSetStatus, lines 259-266: r.Status().Update succeeds
UpdateStatusOk(p) ==
  /\ pc[p] = "status"
  /\ ~statusUnchanged(podSet[p], newStatusOf(p))
  /\ podSetObj.exists
  /\ LET st == statusToWrite(podSet[p], newStatusOf(p))
     IN /\ statusWrites' = [statusWrites EXCEPT ![p] = Append(@, st)]
        /\ podSetObj' = [podSetObj EXCEPT !.status = st]
  /\ pc' = [pc EXCEPT ![p] = "done"]
  /\ result' = [result EXCEPT ![p] = Returned(FALSE, "ok")]
  /\ UNCHANGED <<pods, nsTerminating, reconcilers, envSteps, podSet, filteredPods, opKind,
                 count, wk, errCh, replicasErr, prevObs, unchanged, events>>

\* lines 262-264 and 100-102: r.Status().Update fails
UpdateStatusError(p) ==
  /\ pc[p] = "status"
  /\ ~statusUnchanged(podSet[p], newStatusOf(p))
  /\ statusWrites' = [statusWrites EXCEPT ![p] =
        Append(@, statusToWrite(podSet[p], newStatusOf(p)))]
  /\ pc' = [pc EXCEPT ![p] = "done"]
  /\ result' = [result EXCEPT ![p] = Returned(TRUE, "commit")]
  /\ UNCHANGED <<storeVars, podSet, filteredPods, opKind, count, wk, errCh,
                 replicasErr, prevObs, unchanged, events>>

\* --------------------------------------- the other actors of the cluster
EnvStep ==
  /\ envSteps < MaxEnvSteps
  /\ envSteps' = envSteps + 1
  /\ UNCHANGED <<reconcilers, passVars>>

\* the namespace of the PodSet starts terminating
NamespaceTerminating ==
  /\ EnvStep
  /\ ~nsTerminating
  /\ nsTerminating' = TRUE
  /\ UNCHANGED <<podSetObj, pods>>

\* a pod matching the selector is created by someone else
PodAdded ==
  /\ EnvStep
  /\ ~nsTerminating
  /\ FreeNames # {}
  /\ pods' = [pods EXCEPT ![LeastOf(FreeNames)] = "Pending"]
  /\ UNCHANGED <<podSetObj, nsTerminating>>

\* the kubelet reports a pod ready
PodReady(i) ==
  /\ EnvStep
  /\ pods[i] = "Pending"
  /\ pods' = [pods EXCEPT ![i] = "Ready"]
  /\ UNCHANGED <<podSetObj, nsTerminating>>

\* a pod reaches the phase Failed
PodFailed(i) ==
  /\ EnvStep
  /\ pods[i] \in {"Pending", "Ready"}
  /\ pods' = [pods EXCEPT ![i] = "Failed"]
  /\ UNCHANGED <<podSetObj, nsTerminating>>

\* a pod is deleted by someone else
PodGone(i) ==
  /\ EnvStep
  /\ pods[i] # "none"
  /\ pods' = [pods EXCEPT ![i] = "none"]
  /\ UNCHANGED <<podSetObj, nsTerminating>>

\* spec.replicas of the PodSet is edited: the generation moves on
ReplicasUpdated(n) ==
  /\ EnvStep
  /\ podSetObj.exists
  /\ podSetObj.generation < MaxGeneration
  /\ n # podSetObj.replicas
  /\ podSetObj' = [podSetObj EXCEPT !.replicas = n, !.generation = @ + 1]
  /\ UNCHANGED <<pods, nsTerminating>>

\* spec.selector of the PodSet is edited into one that does not parse
SelectorUpdated ==
  /\ EnvStep
  /\ podSetObj.exists
  /\ podSetObj.generation < MaxGeneration
  /\ podSetObj.selectorOK
  /\ podSetObj' = [podSetObj EXCEPT !.selectorOK = FALSE, !.generation = @ + 1]
  /\ UNCHANGED <<pods, nsTerminating>>

\* the PodSet is marked for deletion
PodSetDeleting ==
  /\ EnvStep
  /\ podSetObj.exists
  /\ ~podSetObj.deletionTimestamp
  /\ podSetObj' = [podSetObj EXCEPT !.deletionTimestamp = TRUE]
  /\ UNCHANGED <<pods, nsTerminating>>

\* the PodSet is removed from the store
PodSetRemoved ==
  /\ EnvStep
  /\ podSetObj.exists
  /\ podSetObj' = [podSetObj EXCEPT !.exists = FALSE]
  /\ UNCHANGED <<pods, nsTerminating>>

\* ------------------------------------------------------------------- Next
Next ==
  \/ \E p \in Reconcilers : GetOk(p)
  \/ \E p \in Reconcilers : GetNotFound(p)
  \/ \E p \in Reconcilers : GetError(p)
  \/ \E p \in Reconcilers : SelectorError(p)
  \/ \E p \in Reconcilers : ListOk(p)
  \/ \E p \in Reconcilers : ListError(p)
  \/ \E p \in Reconcilers, i \in Workers : CreatePodOk(p, i)
  \/ \E p \in Reconcilers, i \in Workers : CreatePodError(p, i)
  \/ \E p \in Reconcilers, i \in Workers : CreatePodTerminating(p, i)
  \/ \E p \in Reconcilers, i \in Workers : DeletePodOk(p, i)
  \/ \E p \in Reconcilers, i \in Workers : DeletePodNotFound(p, i)
  \/ \E p \in Reconcilers, i \in Workers : DeletePodError(p, i)
  \/ \E p \in Reconcilers, i \in Workers : SendError(p, i)
  \/ \E p \in Reconcilers : Join(p)
  \/ \E p \in Reconcilers : UpdateStatusNoop(p)
  \/ \E p \in Reconcilers : UpdateStatusOk(p)
  \/ \E p \in Reconcilers : UpdateStatusError(p)
  \/ PodAdded
  \/ \E i \in PodIds : PodReady(i)
  \/ \E i \in PodIds : PodFailed(i)
  \/ \E i \in PodIds : PodGone(i)
  \/ \E n \in 0 .. MaxReplicas : ReplicasUpdated(n)
  \/ SelectorUpdated
  \/ PodSetDeleting
  \/ PodSetRemoved
  \/ NamespaceTerminating

Spec == Init /\ [][Next]_vars

\* --------------------------------- the controller as the only writer
\* the steps of the passes when no other actor changes the store
NextSerial ==
  \/ \E p \in Reconcilers : GetOk(p)
  \/ \E p \in Reconcilers : GetError(p)
  \/ \E p \in Reconcilers : ListOk(p)
  \/ \E p \in Reconcilers : ListError(p)
  \/ \E p \in Reconcilers, i \in Workers : CreatePodOk(p, i)
  \/ \E p \in Reconcilers, i \in Workers : CreatePodError(p, i)
  \/ \E p \in Reconcilers, i \in Workers : DeletePodOk(p, i)
  \/ \E p \in Reconcilers, i \in Workers : DeletePodError(p, i)
  \/ \E p \in Reconcilers, i \in Workers : SendError(p, i)
  \/ \E p \in Reconcilers : Join(p)
  \/ \E p \in Reconcilers : UpdateStatusNoop(p)
  \/ \E p \in Reconcilers : UpdateStatusOk(p)
  \/ \E p \in Reconcilers : UpdateStatusError(p)

\* serialized passes of one reconcile worker, no other writers
SpecSerial == Init /\ [][NextSerial]_vars

\* every store call returns, every goroutine is scheduled, and a pass that
\* has started runs on
EveryCallReturns ==
  \A p \in Reconcilers :
    /\ WF_vars(ListOk(p) \/ ListError(p))
    /\ WF_vars(Join(p))
    /\ WF_vars(UpdateStatusNoop(p) \/ UpdateStatusOk(p) \/ UpdateStatusError(p))
    /\ \A i \in Workers :
         /\ WF_vars(CreatePodOk(p, i) \/ CreatePodError(p, i))
         /\ WF_vars(DeletePodOk(p, i) \/ DeletePodError(p, i))
         /\ WF_vars(SendError(p, i))

\* passes are triggered again and again and store calls succeed in the end
CallsSucceedEventually ==
  \A p \in Reconcilers :
    /\ SF_vars(GetOk(p))
    /\ SF_vars(ListOk(p))
    /\ SF_vars(\E i \in Workers : CreatePodOk(p, i))
    /\ SF_vars(\E i \in Workers : DeletePodOk(p, i))

SpecTerminate == SpecSerial /\ EveryCallReturns

SpecConverge == SpecSerial /\ EveryCallReturns /\ CallsSucceedEventually

\* ------------------------------------ two passes for the same PodSet
\* two reconcile workers are given the same PodSet at once
InitConc ==
  /\ podSetObj \in [exists : {TRUE}, replicas : 0 .. MaxReplicas,
                    deletionTimestamp : {FALSE}, generation : {1},
                    selectorOK : {TRUE}, status : {ZeroStatus}]
  /\ \E k \in 0 .. MaxPods :
       pods = [i \in PodIds |-> IF i <= k THEN "Ready" ELSE "none"]
  /\ nsTerminating = FALSE
  /\ reconcilers = Reconcilers
  /\ envSteps = 0
  /\ pc = [p \in Reconcilers |-> "idle"]
  /\ podSet = [p \in Reconcilers |-> NoPodSet]
  /\ filteredPods = [p \in Reconcilers |-> <<>>]
  /\ opKind = [p \in Reconcilers |-> "none"]
  /\ count = [p \in Reconcilers |-> 0]
  /\ wk = [p \in Reconcilers |-> [i \in Workers |-> "none"]]
  /\ errCh = [p \in Reconcilers |-> 0]
  /\ replicasErr = [p \in Reconcilers |-> FALSE]
  /\ statusWrites = [p \in Reconcilers |-> <<>>]
  /\ result = [p \in Reconcilers |-> NoResult]
  /\ prevObs = [p \in Reconcilers |-> NoObs]
  /\ unchanged = [p \in Reconcilers |-> FALSE]
  /\ events = [p \in Reconcilers |-> {}]

\* the steps of the two passes when every store call does its work: the
\* other pass is the only other writer
NextConc ==
  \/ \E p \in Reconcilers : GetOk(p)
  \/ \E p \in Reconcilers : ListOk(p)
  \/ \E p \in Reconcilers, i \in Workers : CreatePodOk(p, i)
  \/ \E p \in Reconcilers, i \in Workers : DeletePodOk(p, i)
  \/ \E p \in Reconcilers, i \in Workers : DeletePodNotFound(p, i)
  \/ \E p \in Reconcilers : Join(p)
  \/ \E p \in Reconcilers : UpdateStatusNoop(p)
  \/ \E p \in Reconcilers : UpdateStatusOk(p)

SpecConc == InitConc /\ [][NextConc]_vars

TypeOK ==
  /\ pods \in [PodIds -> {"none", "Pending", "Ready", "Failed"}]
  /\ pc \in [Reconcilers -> {"idle", "list", "wait", "status", "done"}]
  /\ \A p \in Reconcilers : errCh[p] \in 0 .. MaxCount

\* ----------------------------------------------------------- properties
Min(a, b) == IF a < b THEN a ELSE b

\* the pass p has called manageReplicas
ManageRan(p) ==
  \/ pc[p] = "wait"
  \/ /\ pc[p] = "status" \/ (pc[p] = "done" /\ result[p].step \in {"ok", "commit"})
     /\ ~podSet[p].deletionTimestamp

\* the pass p has returned from manageReplicas or skipped it
PastManage(p) ==
  pc[p] = "status" \/ (pc[p] = "done" /\ result[p].step \in {"ok", "commit"})

Spawned(p) == {i \in Workers : wk[p][i] # "none"}
Succeeded(p) == {i \in Workers : wk[p][i] = "ok"}
Failed(p) == {i \in Workers : wk[p][i] \in {"send", "err"}}
Absent(p) == {i \in Workers : wk[p][i] = "notfound"}
Finished(p) == {i \in Workers : wk[p][i] \in {"ok", "notfound", "err"}}

CreatesIssued(p) == IF opKind[p] = "create" THEN Cardinality(Spawned(p)) ELSE 0
DeletesIssued(p) == IF opKind[p] = "delete" THEN Cardinality(Spawned(p)) ELSE 0

\* C1: for active count A and desired count D, manageReplicas issues creates
\* iff A < D, deletes iff A > D, nothing iff A = D, and the number of
\* operations issued is min(|A - D|, BurstReplicas).
C1_DiffClamped ==
  \A p \in Reconcilers :
    ManageRan(p) =>
      LET A == Len(filteredPods[p])
          D == podSet[p].replicas
      IN /\ CreatesIssued(p) = (IF A < D THEN Min(D - A, BurstReplicas) ELSE 0)
         /\ DeletesIssued(p) = (IF A > D THEN Min(A - D, BurstReplicas) ELSE 0)
         /\ (CreatesIssued(p) > 0) <=> (A < D)
         /\ (DeletesIssued(p) > 0) <=> (A > D)

\* a scale-down whose diff exceeds the ceiling has been fanned out
C1_Witness ==
  \E p \in Reconcilers :
    /\ pc[p] = "wait"
    /\ Len(filteredPods[p]) - podSet[p].replicas > BurstReplicas
    /\ DeletesIssued(p) = BurstReplicas

\* C2: in every state of a pass, the create or delete operations started
\* and not yet finished are at most BurstReplicas.
C2_OutstandingBounded ==
  \A p \in Reconcilers : Cardinality(Outstanding(p)) <= BurstReplicas

\* a full burst of creates is outstanding
C2_Witness ==
  \E p \in Reconcilers :
    /\ opKind[p] = "create"
    /\ podSet[p].replicas - Len(filteredPods[p]) > BurstReplicas
    /\ Cardinality(Outstanding(p)) = BurstReplicas

\* C3: when a create batch of count operations has run and k of them
\* failed, all count invocations were executed and the batch, and so
\* manageReplicas, reported an error iff k > 0.
C3_CreateBatchReportsFailure ==
  \A p \in Reconcilers :
    (PastManage(p) /\ opKind[p] = "create") =>
      /\ Cardinality(Finished(p)) = count[p]
      /\ replicasErr[p] <=> (Cardinality(Failed(p)) > 0)

\* C4: on scale-down a delete is attempted for every victim, and
\* manageReplicas returns an error iff a delete failed with an error other
\* than not-found; not-found alone yields no error.
C4_DeleteBatchReportsFailure ==
  \A p \in Reconcilers :
    (PastManage(p) /\ opKind[p] = "delete") =>
      /\ Finished(p) = 1 .. Len(getPodsToDelete(filteredPods[p], count[p]))
      /\ Finished(p) = 1 .. count[p]
      /\ replicasErr[p] <=> (Failed(p) # {})

\* a scale-down whose only failure was a pod already gone returned no error
C4_Witness ==
  \E p \in Reconcilers :
    /\ PastManage(p)
    /\ opKind[p] = "delete"
    /\ Absent(p) # {}
    /\ Failed(p) = {}
    /\ ~replicasErr[p]

\* C5: status calculation and the status commit never start while an
\* operation fanned out by the pass is still outstanding.
C5_JoinBeforeStatus ==
  \A p \in Reconcilers : PastManage(p) => Outstanding(p) = {}

\* the pass reached the status calculation after a batch with a failure
C5_Witness ==
  \E p \in Reconcilers :
    /\ pc[p] = "status"
    /\ count[p] = BurstReplicas
    /\ Failed(p) # {}
    /\ Succeeded(p) # {}

\* the active pods the pass knows to exist once its batch has finished
ActiveAfterBatch(p) ==
  Len(filteredPods[p])
    + (IF opKind[p] = "create" THEN Cardinality(Succeeded(p)) ELSE 0)
    - (IF opKind[p] = "delete" THEN Cardinality(Succeeded(p)) ELSE 0)

ReadyListed(p) ==
  Cardinality({i \in 1 .. Len(filteredPods[p]) : filteredPods[p][i].state = "Ready"})

StatusDiffers(p) ==
  \/ podSet[p].status.replicas # Len(filteredPods[p])
  \/ podSet[p].status.readyReplicas # ReadyListed(p)
  \/ podSet[p].status.availableReplicas # ReadyListed(p)
  \/ podSet[p].generation # podSet[p].status.observedGeneration

\* C7: updatePodSetStatus writes the status iff replicas, readyReplicas or
\* availableReplicas differ from the stored status or the generation differs
\* from the stored observedGeneration; otherwise it issues no write.
C7_WriteIffChanged ==
  \A p \in Reconcilers :
    (pc[p] = "done" /\ result[p].step \in {"ok", "commit"}) =>
      /\ Len(statusWrites[p]) = (IF StatusDiffers(p) THEN 1 ELSE 0)
      /\ ~StatusDiffers(p) => result[p].step = "ok"

\* a pass over a non-empty listing found the stored status up to date
C7_Witness ==
  \E p \in Reconcilers :
    /\ pc[p] = "done"
    /\ result[p].step = "ok"
    /\ filteredPods[p] # <<>>
    /\ ~StatusDiffers(p)
    /\ statusWrites[p] = <<>>

\* the pass p observed what the pass before it observed, and that pass
\* completed its commit
SameAsPrevious(p) ==
  /\ pc[p] = "done"
  /\ result[p].step \in {"ok", "commit"}
  /\ unchanged[p]

\* C8: of two consecutive passes with no change in desired count, active
\* set, readiness or generation, the first having committed or found
\* nothing to commit, the second performs no status write.
C8_SecondPassNoWrite ==
  \A p \in Reconcilers : SameAsPrevious(p) => statusWrites[p] = <<>>

\* a second pass over the same non-empty listing finished without a write
C8_Witness ==
  \E p \in Reconcilers :
    /\ SameAsPrevious(p)
    /\ filteredPods[p] # <<>>
    /\ podSetObj.status.replicas = Len(filteredPods[p])
    /\ statusWrites[p] = <<>>

\* C9: every status write carries observedGeneration equal to the
\* generation of the PodSet as fetched in that pass, and a successful
\* commit leaves that value in the stored status.
C9_WriteCarriesGeneration ==
  [][\A p \in Reconcilers :
       Len(statusWrites'[p]) > Len(statusWrites[p]) =>
         /\ statusWrites'[p][Len(statusWrites'[p])].observedGeneration
              = podSet[p].generation
         /\ result'[p].step = "ok" =>
              podSetObj'.status.observedGeneration = podSet[p].generation]_vars

\* a commit after a spec change stored the new generation
C9_Witness ==
  \E p \in Reconcilers :
    /\ pc[p] = "done"
    /\ result[p].step = "ok"
    /\ statusWrites[p] # <<>>
    /\ podSet[p].generation = 2
    /\ podSet[p].status.observedGeneration = 1
    /\ podSetObj.status.observedGeneration = 2

\* C10: in a pass whose PodSet carries a deletion marker no create and no
\* delete is issued whatever the counts, and the status is still computed
\* from the listed active instances and a commit is attempted.
C10_DeletionSkipsReplicas ==
  \A p \in Reconcilers :
    (podSet[p].deletionTimestamp /\ pc[p] \in {"wait", "status", "done"}
       /\ result[p].step # "list") =>
      /\ pc[p] \in {"status", "done"}
      /\ Spawned(p) = {}
      /\ opKind[p] = "none"
      /\ pc[p] = "done" =>
           /\ result[p].step \in {"ok", "commit"}
           /\ Len(statusWrites[p]) = (IF StatusDiffers(p) THEN 1 ELSE 0)
           /\ \A k \in 1 .. Len(statusWrites[p]) :
                statusWrites[p][k].replicas = Len(filteredPods[p])

\* a PodSet being deleted with two active pods and another desired count:
\* nothing was issued and replicas 2 was committed
C10_Witness ==
  \E p \in Reconcilers :
    /\ podSet[p].deletionTimestamp
    /\ pc[p] = "done"
    /\ result[p].step = "ok"
    /\ Len(filteredPods[p]) = 2
    /\ podSet[p].replicas # 2
    /\ Spawned(p) = {}
    /\ Len(statusWrites[p]) = 1
    /\ podSetObj.status.replicas = 2

\* C11: a failed create or delete never aborts the pass: every pass that
\* fanned out a batch goes on to calculateStatus and updatePodSetStatus,
\* whether or not manageReplicas returned an error.
C11_BatchFailureDoesNotAbort ==
  \A p \in Reconcilers :
    (Spawned(p) # {} /\ pc[p] \in {"status", "done"}) =>
      /\ Outstanding(p) = {} => result[p].step # "manage"
      /\ pc[p] = "done" =>
           /\ result[p].step \in {"ok", "commit"}
           /\ StatusDiffers(p) => Len(statusWrites[p]) = 1

\* manageReplicas returned an error and the status was still committed
C11_Witness ==
  \E p \in Reconcilers :
    /\ pc[p] = "done"
    /\ replicasErr[p]
    /\ Failed(p) # {}
    /\ result[p].step = "ok"
    /\ Len(statusWrites[p]) = 1
    /\ podSetObj.status = statusWrites[p][1]

\* C12: a pass asks for a retry iff the fetch failed with an error other
\* than not-found, the selector did not parse, the list failed or the status
\* commit failed; a not-found fetch and every pass that completes the
\* commit, also after a failed batch, return without asking for a retry.
C12_RequeueIffStoreFailure ==
  \A p \in Reconcilers :
    pc[p] = "done" =>
      /\ result[p].returned
      /\ result[p].requeue <=> result[p].step \in {"get", "selector", "list", "commit"}
      /\ result[p].step = "notfound" => ~podSetObj.exists /\ ~result[p].requeue
      /\ result[p].step = "commit" => Len(statusWrites[p]) = 1
      /\ (Failed(p) # {} /\ result[p].step = "ok") => ~result[p].requeue

\* a pass whose delete batch failed completed its commit and asked for no retry
C12_Witness ==
  \E p \in Reconcilers :
    /\ pc[p] = "done"
    /\ opKind[p] = "delete"
    /\ replicasErr[p]
    /\ result[p].step = "ok"
    /\ statusWrites[p] # <<>>
    /\ ~result[p].requeue

\* C13: when fetching the PodSet, parsing its selector or listing the pods
\* fails, the pass ends there: it issues no create, no delete and no status
\* write.
C13_EarlyFailureShortCircuits ==
  \A p \in Reconcilers :
    result[p].step \in {"notfound", "get", "selector", "list"} =>
      /\ pc[p] = "done"
      /\ Spawned(p) = {}
      /\ opKind[p] = "none"
      /\ statusWrites[p] = <<>>

\* the list failed for a PodSet that wants pods and has none: nothing issued
C13_Witness ==
  \E p \in Reconcilers :
    /\ pc[p] = "done"
    /\ result[p].step = "list"
    /\ podSet[p].replicas > 0
    /\ \A i \in PodIds : pods[i] = "none"
    /\ podSetObj.status = ZeroStatus
    /\ Spawned(p) = {}
    /\ statusWrites[p] = <<>>

\* C14: no failure is dropped silently: for every create or delete that
\* failed in a pass, other than a delete of a pod already gone, the pass
\* returns a retry request or an event was recorded for that failure.
C14_NoFailureDropped ==
  \A p \in Reconcilers :
    pc[p] = "done" =>
      \A i \in Failed(p) : result[p].requeue \/ i \in events[p]

StatusOrdered(st) ==
  /\ 0 <= st.availableReplicas
  /\ st.availableReplicas <= st.readyReplicas
  /\ st.readyReplicas <= st.replicas

\* C15: the status calculateStatus computes for a list of active pods has
\* availableReplicas <= readyReplicas <= replicas with replicas the number
\* of active pods, so every status written to the store is ordered this way.
C15_StatusOrdered ==
  /\ StatusOrdered(podSetObj.status)
  /\ \A p \in Reconcilers :
       /\ PastManage(p) =>
            /\ StatusOrdered(newStatusOf(p))
            /\ newStatusOf(p).replicas = Len(filteredPods[p])
       /\ \A k \in 1 .. Len(statusWrites[p]) : StatusOrdered(statusWrites[p][k])

\* a status with fewer ready than active pods was written and stored
C15_Witness ==
  \E p \in Reconcilers :
    /\ pc[p] = "done"
    /\ Len(statusWrites[p]) = 1
    /\ podSetObj.status = statusWrites[p][1]
    /\ podSetObj.status.readyReplicas >= 1
    /\ podSetObj.status.readyReplicas < podSetObj.status.replicas

\* the names of the first n pods of the listing of pass p
PrefixNames(p, n) == {filteredPods[p][k].name : k \in 1 .. n}

\* the pods the goroutines of the scale-down batch of pass p delete
Targets(p) == {targetPod(p, i) : i \in Spawned(p)}

\* C16: on scale-down by count the victims are the first count pods of the
\* active list in observed order: count distinct pods of the list, so no
\* pod is the target of two deletes of one pass, and a pass deletes no pod
\* outside them.
C16_VictimsArePrefix ==
  [][\A p \in Reconcilers :
       /\ opKind[p] = "delete" =>
            /\ count[p] <= Len(filteredPods[p])
            /\ Cardinality(Spawned(p)) = count[p]
            /\ \A i \in Spawned(p) : targetPod(p, i) = filteredPods[p][i].name
            /\ Cardinality(Targets(p)) = count[p]
            /\ Targets(p) = PrefixNames(p, count[p])
       /\ \A i \in Workers :
            (wk[p][i] = "run" /\ wk'[p][i] = "ok" /\ opKind[p] = "delete") =>
              \E n \in PrefixNames(p, count[p]) :
                /\ pods[n] # "none"
                /\ pods' = [pods EXCEPT ![n] = "none"]]_vars

\* two pods of a longer listing are being deleted: the first two listed
C16_Witness ==
  \E p \in Reconcilers :
    /\ opKind[p] = "delete"
    /\ count[p] = 2
    /\ Len(filteredPods[p]) = 3
    /\ Targets(p) = {filteredPods[p][1].name, filteredPods[p][2].name}
    /\ Succeeded(p) # {}

\* the active pods in the store
ActiveCount == Len(FilterActivePods(ListPods(pods)))

\* C17: with serialized passes triggered again and again, a fixed desired
\* count, no deletion marker, no other writers and store calls that succeed
\* in the end, the number of active pods eventually equals the desired count
\* and stays there, also when the delta exceeds BurstReplicas or a batch
\* succeeded only in part.
C17_Converges == <>[](ActiveCount = podSetObj.replicas)

\* every name holds a pod the controller created, which took more than one
\* pass, and a later pass recorded the full count
C17_Witness ==
  \E p \in Reconcilers :
    /\ MaxPods > BurstReplicas
    /\ \A i \in PodIds : pods[i] = "Pending"
    /\ podSetObj.replicas = MaxPods
    /\ pc[p] = "done"
    /\ opKind[p] = "none"
    /\ podSetObj.status.replicas = MaxPods

\* C19: with serialized passes and no other writers a pass never
\* overshoots: during and after a scale-up the active count is at most the
\* desired count, during and after a scale-down at least the desired count,
\* whatever operations succeed or fail.
C19_NoOvershoot ==
  \A p \in Reconcilers :
    pc[p] \in {"wait", "status", "done"} =>
      /\ opKind[p] = "create" => ActiveCount <= podSet[p].replicas
      /\ opKind[p] = "delete" => ActiveCount >= podSet[p].replicas
      /\ opKind[p] = "create" =>
           ActiveCount = Len(filteredPods[p]) + Cardinality(Succeeded(p))
      /\ opKind[p] = "delete" =>
           ActiveCount = Len(filteredPods[p]) - Cardinality(Succeeded(p))

\* a clamped scale-down in which one delete failed and one succeeded
C19_Witness ==
  \E p \in Reconcilers :
    /\ pc[p] = "done"
    /\ opKind[p] = "delete"
    /\ Len(filteredPods[p]) - podSet[p].replicas > BurstReplicas
    /\ Succeeded(p) # {}
    /\ Failed(p) # {}
    /\ ActiveCount > podSet[p].replicas

\* C20: a pass terminates when every store call returns: a goroutine never
\* blocks on sending its error, because errCh has room for one error per
\* goroutine, so the join is released even when every operation fails; and
\* a pass issues at most one status write.
C20_PassTerminates ==
  \A p \in Reconcilers :
    /\ [](\A i \in Workers : wk[p][i] = "send" => errCh[p] < errChCap(p))
    /\ [](Len(statusWrites[p]) <= 1)
    /\ (pc[p] \in {"list", "wait", "status"}) ~> (pc[p] = "done")

\* every operation of a full batch failed and the pass has finished
C20_Witness ==
  \E p \in Reconcilers :
    /\ pc[p] = "done"
    /\ count[p] = BurstReplicas
    /\ \A i \in 1 .. count[p] : wk[p][i] = "err"
    /\ errCh[p] = errChCap(p)
    /\ Len(statusWrites[p]) = 1

\* the passes p and q are both under way on the same listing of the same PodSet
SameListing(p, q) ==
  /\ p # q
  /\ pc[p] \in {"wait", "status"}
  /\ pc[q] \in {"wait", "status"}
  /\ filteredPods[p] = filteredPods[q]
  /\ podSet[p].replicas = podSet[q].replicas

\* C18: nothing in the reconciler keeps two passes for the same PodSet
\* apart: a pass can start while the other is under way, and two passes
\* that listed the same active set each issue the full diff, so together
\* they issue twice the diff and, on scale-down, aim at the same victims.
C18_NoMutualExclusion ==
  \A p, q \in Reconcilers :
    /\ (p # q /\ pc[p] \in {"idle", "done"} /\ pc[q] \in {"list", "wait", "status"}) =>
         ENABLED GetOk(p)
    /\ SameListing(p, q) =>
         LET A == Len(filteredPods[p])
             D == podSet[p].replicas
         IN /\ A < D => CreatesIssued(p) + CreatesIssued(q) = 2 * Min(D - A, BurstReplicas)
            /\ A > D => /\ DeletesIssued(p) + DeletesIssued(q) = 2 * Min(A - D, BurstReplicas)
                        /\ Targets(p) = Targets(q)

\* both passes listed the same pods and created the full diff each: more
\* active pods than desired
C18_Witness ==
  \E p, q \in Reconcilers :
    /\ SameListing(p, q)
    /\ opKind[p] = "create"
    /\ opKind[q] = "create"
    /\ CreatesIssued(p) + CreatesIssued(q) > podSet[p].replicas - Len(filteredPods[p])
    /\ podSetObj.replicas = podSet[p].replicas
    /\ ActiveCount > podSetObj.replicas

\* both passes listed the same pods and one found its victim already deleted
C18_SameVictims ==
  \E p, q \in Reconcilers :
    /\ SameListing(p, q)
    /\ opKind[p] = "delete"
    /\ Targets(p) = Targets(q)
    /\ Absent(p) # {}
    /\ Succeeded(q) # {}

====
